---- MODULE Spec2Model ----
(***************************************************************************)
(* Model of official/transformer/utils/schedule.py: the class Manager,     *)
(* which turns a training length given in steps or in epochs into the      *)
(* number of train/eval iterations, the length of one iteration, the       *)
(* dataset repeat count and, on TPU, the equivalent number of steps.       *)
(*                                                                         *)
(* Python values are encoded as follows.  Counts are naturals; None is the *)
(* integer -1, which no count takes.  A value returned by a property or a  *)
(* method is a record [tag, int, str]: tag "int", "None", "str", or        *)
(* "raise" with the exception's class name in str.                         *)
(***************************************************************************)
EXTENDS Integers, Sequences, TLC

(* ------------------------------ bounds -------------------------------- *)
MaxTrainSteps == 3
MaxStepsBetweenEvals == 3
MaxTrainEpochs == 2
MaxEpochsBetweenEvals == 2
MaxBatchSize == 2
MaxLength == 2
MaxShards == 2
MaxNumEpochs == 2
NumTrainExamples == 2
NumEvalExamples == 1

(* --------------------------- Python values ---------------------------- *)
None == -1

_TRAIN == "train"

_EVAL == "eval"

\* dataset.NUM_EXAMPLES: the number of examples of each split.
NUM_EXAMPLES == [m \in {_TRAIN, _EVAL} |->
                   IF m = _TRAIN THEN NumTrainExamples ELSE NumEvalExamples]

\* Truth value of an optional integer: None and 0 are false.
Truthy(x) == x # None /\ x # 0

\* x or y
PyOr(x, y) == IF Truthy(x) THEN x ELSE y

\* x // y on naturals, y # 0
FloorDiv(x, y) == x \div y

\* math.ceil(x / y) on naturals, y # 0
CeilDiv(x, y) == IF x % y = 0 THEN x \div y ELSE (x \div y) + 1

RetUnset == [tag |-> "unset", int |-> 0, str |-> ""]

RetNone == [tag |-> "None", int |-> 0, str |-> ""]

RetInt(n) == [tag |-> "int", int |-> n, str |-> ""]

RetStr(s) == [tag |-> "str", int |-> 0, str |-> s]

Raise(e) == [tag |-> "raise", int |-> 0, str |-> e]

\* An optional integer field as a returned value.
RetOpt(x) == IF x = None THEN RetNone ELSE RetInt(x)

\* "{}".format(r) of a returned integer or None
Fmt(r) == IF r.tag = "None" THEN "None" ELSE ToString(r.int)

(* ------------------------------- state -------------------------------- *)
VARIABLES
  pc,                              \* "new", "constructed" or "failed"
  err,                             \* exception raised by __init__, or "none"
  train_eval_iterations,
  _single_iteration_train_steps,
  _single_iteration_train_epochs,
  max_length,
  batch_size,
  use_tpu,
  num_tpu_shards,
  sleeps,                          \* number of time.sleep(60) calls made
  logged,                          \* number of tf.logging.info lines
  phase,                           \* position of the run loop in an iteration
  i,                               \* iterations of the run loop completed
  call,                            \* the latest call and its arguments
  ret                              \* what the latest call returned or raised

fields == <<train_eval_iterations, _single_iteration_train_steps,
            _single_iteration_train_epochs, max_length, batch_size,
            use_tpu, num_tpu_shards>>

vars == <<pc, err, train_eval_iterations, _single_iteration_train_steps,
          _single_iteration_train_epochs, max_length, batch_size, use_tpu,
          num_tpu_shards, sleeps, logged, phase, i, call, ret>>

\* The arguments of Manager.__init__.
InitArgs == [train_steps : {None} \cup (0..MaxTrainSteps),
             steps_between_evals : 0..MaxStepsBetweenEvals,
             train_epochs : {None} \cup (0..MaxTrainEpochs),
             epochs_between_evals : 0..MaxEpochsBetweenEvals,
             default_train_epochs : 1..MaxTrainEpochs,
             batch_size : 0..MaxBatchSize,
             max_length : 0..MaxLength,
             use_tpu : BOOLEAN,
             num_tpu_shards : 0..MaxShards]

NoArgs == [train_steps |-> None, steps_between_evals |-> None,
           train_epochs |-> None, epochs_between_evals |-> None,
           default_train_epochs |-> None, batch_size |-> None,
           max_length |-> None, use_tpu |-> FALSE, num_tpu_shards |-> None]

Call(op, a, n, m) == [op |-> op, args |-> a, num_epochs |-> n, mode |-> m]

Init ==
  /\ pc = "new"
  /\ err = "none"
  /\ train_eval_iterations = None
  /\ _single_iteration_train_steps = None
  /\ _single_iteration_train_epochs = None
  /\ max_length = None
  /\ batch_size = None
  /\ use_tpu = FALSE
  /\ num_tpu_shards = None
  /\ sleeps = 0
  /\ logged = 0
  /\ phase = "train"
  /\ i = 0
  /\ call = Call("none", NoArgs, None, "none")
  /\ ret = RetUnset

(* ---------------------------- Manager.__init__ ------------------------ *)
BothDefinedNeither(a) == a.train_steps = None /\ a.train_epochs = None

\* if train_steps and train_epochs
BothDefined(a) == Truthy(a.train_steps) /\ Truthy(a.train_epochs)

\* train_epochs = train_epochs or default_train_epochs
TrainEpochs(a) == PyOr(a.train_epochs, a.default_train_epochs)

\* The total and the cadence of the chosen basis.
Total(a) == IF Truthy(a.train_steps) THEN a.train_steps ELSE TrainEpochs(a)

Between(a) == IF Truthy(a.train_steps) THEN a.steps_between_evals
              ELSE a.epochs_between_evals

TrainEvalIterationsRoundUp(a) == CeilDiv(Total(a), Between(a))

TrainEvalIterations(a) == FloorDiv(Total(a), Between(a))

SingleIterationTrainStepsAlways(a) == a.steps_between_evals

SingleIterationTrainSteps(a) ==
  IF Truthy(a.train_steps) THEN a.steps_between_evals ELSE None

SingleIterationTrainEpochs(a) ==
  IF Truthy(a.train_steps) THEN None ELSE a.epochs_between_evals

ShardsDivideBatch(a) == a.batch_size % a.num_tpu_shards = 0

\* (self.batch_size // self.max_length) % self.num_tpu_shards == 0
ShardsDivide(a) == FloorDiv(a.batch_size, a.max_length) % a.num_tpu_shards = 0

\* The exception __init__ raises on arguments a, "none" if it returns.
InitError(a) ==
  IF BothDefined(a) THEN "ValueError"
  ELSE IF Between(a) = 0 THEN "ZeroDivisionError"
  ELSE IF ~a.use_tpu THEN "none"
  ELSE IF a.max_length = 0 \/ a.num_tpu_shards = 0 THEN "ZeroDivisionError"
  ELSE IF ~ShardsDivide(a) THEN "AssertionError"
  ELSE "none"

Manager_init(a) ==
  /\ pc = "new"
  /\ call' = Call("__init__", a, None, "none")
  /\ err' = InitError(a)
  /\ IF InitError(a) = "none"
       THEN /\ pc' = "constructed"
            /\ train_eval_iterations' = TrainEvalIterations(a)
            /\ _single_iteration_train_steps' = SingleIterationTrainSteps(a)
            /\ _single_iteration_train_epochs' = SingleIterationTrainEpochs(a)
            /\ max_length' = a.max_length
            /\ batch_size' = a.batch_size
            /\ use_tpu' = a.use_tpu
            /\ num_tpu_shards' = a.num_tpu_shards
            /\ ret' = RetNone
       ELSE /\ pc' = "failed"
            /\ ret' = Raise(InitError(a))
            /\ UNCHANGED fields
  /\ UNCHANGED <<sleeps, logged, phase, i>>

(* ----------------------- properties and methods ----------------------- *)
\* Manager.epochs_to_steps
epochs_to_steps(num_epochs, mode) ==
  IF ~use_tpu THEN Raise("AssertionError")
  ELSE IF batch_size = 0 THEN Raise("ZeroDivisionError")
  ELSE RetInt(FloorDiv(NUM_EXAMPLES[mode] * max_length * num_epochs,
                       batch_size))

single_iteration_train_steps_eval_mode ==
  IF Truthy(_single_iteration_train_steps) \/ ~use_tpu
    THEN RetOpt(_single_iteration_train_steps)
    ELSE epochs_to_steps(_single_iteration_train_epochs, _EVAL)

\* Manager.single_iteration_train_steps
single_iteration_train_steps ==
  IF Truthy(_single_iteration_train_steps) \/ ~use_tpu
    THEN RetOpt(_single_iteration_train_steps)
    ELSE epochs_to_steps(_single_iteration_train_epochs, _TRAIN)

\* Manager.single_iteration_eval_steps
single_iteration_eval_steps ==
  IF ~use_tpu THEN RetNone ELSE epochs_to_steps(1, _EVAL)

\* Manager.train_increment_str
train_increment_str ==
  IF Truthy(_single_iteration_train_steps)
    THEN RetStr(ToString(_single_iteration_train_steps) \o " steps.")
  ELSE IF ~use_tpu
    THEN RetStr(Fmt(RetOpt(_single_iteration_train_epochs)) \o " epochs.")
  ELSE IF single_iteration_train_steps.tag = "raise"
    THEN single_iteration_train_steps
  ELSE RetStr("~" \o Fmt(RetOpt(_single_iteration_train_epochs))
              \o " epochs. (" \o Fmt(single_iteration_train_steps)
              \o " steps)")

repeat_dataset_floor ==
  IF /\ _single_iteration_train_epochs = None
     /\ _single_iteration_train_steps > NUM_EXAMPLES[_TRAIN]
    THEN RetInt(FloorDiv(_single_iteration_train_steps, NUM_EXAMPLES[_TRAIN]))
    ELSE RetOpt(_single_iteration_train_epochs)

\* Manager.repeat_dataset
repeat_dataset ==
  IF /\ _single_iteration_train_epochs = None
     /\ _single_iteration_train_steps > NUM_EXAMPLES[_TRAIN]
    THEN RetInt(CeilDiv(_single_iteration_train_steps, NUM_EXAMPLES[_TRAIN]))
    ELSE RetOpt(_single_iteration_train_epochs)

\* A read of a property or a call of epochs_to_steps: the manager and the
\* run loop are left as they are.
Returns(op, n, m, r) ==
  /\ pc = "constructed"
  /\ call' = Call(op, NoArgs, n, m)
  /\ ret' = r
  /\ UNCHANGED <<pc, err, fields, sleeps, logged, phase, i>>

Get_single_iteration_train_steps ==
  Returns("single_iteration_train_steps", None, "none",
          single_iteration_train_steps)

Get_single_iteration_eval_steps ==
  Returns("single_iteration_eval_steps", None, "none",
          single_iteration_eval_steps)

Get_train_increment_str ==
  Returns("train_increment_str", None, "none", train_increment_str)

Get_repeat_dataset ==
  Returns("repeat_dataset", None, "none", repeat_dataset)

Call_epochs_to_steps(num_epochs, mode) ==
  Returns("epochs_to_steps", num_epochs, mode,
          epochs_to_steps(num_epochs, mode))

(* ------------------------------ run loop ------------------------------ *)
_sleep_always ==
  /\ logged' = logged + 1
  /\ sleeps' = sleeps + 1

\* Manager._sleep_if_tpu
_sleep_if_tpu ==
  IF use_tpu
    THEN /\ logged' = logged + 1
         /\ sleeps' = sleeps + 1
    ELSE UNCHANGED <<sleeps, logged>>

\* The run loop trains for one iteration.
Train ==
  /\ pc = "constructed"
  /\ phase = "train"
  /\ i < train_eval_iterations
  /\ phase' = "post_train"
  /\ call' = Call("train", NoArgs, None, "none")
  /\ ret' = RetNone
  /\ UNCHANGED <<pc, err, fields, sleeps, logged, i>>

\* Manager.post_train
post_train ==
  /\ pc = "constructed"
  /\ phase = "post_train"
  /\ _sleep_if_tpu
  /\ phase' = "eval"
  /\ call' = Call("post_train", NoArgs, None, "none")
  /\ ret' = RetNone
  /\ UNCHANGED <<pc, err, fields, i>>

\* The run loop evaluates.
Eval ==
  /\ pc = "constructed"
  /\ phase = "eval"
  /\ phase' = "post_eval"
  /\ call' = Call("eval", NoArgs, None, "none")
  /\ ret' = RetNone
  /\ UNCHANGED <<pc, err, fields, sleeps, logged, i>>

\* Manager.post_eval
post_eval ==
  /\ pc = "constructed"
  /\ phase = "post_eval"
  /\ _sleep_if_tpu
  /\ phase' = "train"
  /\ i' = i + 1
  /\ call' = Call("post_eval", NoArgs, None, "none")
  /\ ret' = RetNone
  /\ UNCHANGED <<pc, err, fields>>

\* The caller constructs the manager, once.
Construct == pc = "new" /\ \E a \in InitArgs : Manager_init(a)

EpochsToSteps ==
  \E n \in 0..MaxNumEpochs, m \in {_TRAIN, _EVAL} : Call_epochs_to_steps(n, m)

Next ==
  \/ Construct
  \/ Get_single_iteration_train_steps
  \/ Get_single_iteration_eval_steps
  \/ Get_train_increment_str
  \/ Get_repeat_dataset
  \/ EpochsToSteps
  \/ Train
  \/ post_train
  \/ Eval
  \/ post_eval

Spec == Init /\ [][Next]_vars

(* ------------------------------ properties ---------------------------- *)
Constructed == pc = "constructed"

JustInit == call.op = "__init__"

NoManager ==
  /\ train_eval_iterations = None
  /\ _single_iteration_train_steps = None
  /\ _single_iteration_train_epochs = None
  /\ max_length = None
  /\ batch_size = None
  /\ num_tpu_shards = None

\* C1: a construction given both train_steps and train_epochs, both neither
\* None nor 0, raises ValueError and leaves no manager, whatever the other
\* arguments are.
C1_BothTotalsRejected ==
  (JustInit /\ Truthy(call.args.train_steps) /\ Truthy(call.args.train_epochs))
    => /\ pc = "failed"
       /\ err = "ValueError"
       /\ ret = Raise("ValueError")
       /\ NoManager

C1_Witness ==
  /\ JustInit
  /\ call.args.train_steps = 1
  /\ call.args.train_epochs = 2
  /\ call.args.use_tpu
  /\ pc = "failed"
  /\ err = "ValueError"

\* C2: after a successful construction train_eval_iterations is the floor of
\* total / cadence in the chosen basis (the largest n with n * cadence <=
\* total), the per-iteration length of that basis is the cadence and the
\* other one is None.
C2_IterationsAreFloor ==
  (JustInit /\ Constructed) =>
    LET a == call.args
        n == train_eval_iterations
    IN IF Truthy(a.train_steps)
         THEN /\ a.steps_between_evals > 0
              /\ n * a.steps_between_evals <= a.train_steps
              /\ a.train_steps < (n + 1) * a.steps_between_evals
              /\ _single_iteration_train_steps = a.steps_between_evals
              /\ _single_iteration_train_epochs = None
         ELSE LET total == IF Truthy(a.train_epochs) THEN a.train_epochs
                           ELSE a.default_train_epochs
              IN /\ a.epochs_between_evals > 0
                 /\ n * a.epochs_between_evals <= total
                 /\ total < (n + 1) * a.epochs_between_evals
                 /\ _single_iteration_train_epochs = a.epochs_between_evals
                 /\ _single_iteration_train_steps = None

C2_Witness ==
  /\ JustInit
  /\ Constructed
  /\ call.args.train_steps = 3
  /\ call.args.steps_between_evals = 2
  /\ train_eval_iterations = 1

\* C3: in every state of a constructed manager, whatever has been read or
\* called since, exactly one of _single_iteration_train_steps and
\* _single_iteration_train_epochs is not None.
C3_ExactlyOneBasis ==
  Constructed =>
    ((_single_iteration_train_steps = None)
       # (_single_iteration_train_epochs = None))

C3_Witness ==
  /\ Constructed
  /\ _single_iteration_train_steps = None
  /\ _single_iteration_train_epochs = 1
  /\ call.op = "post_eval"
  /\ i = 2

\* The construction got as far as the check of the shards: it was stopped
\* neither by the ValueError nor by a division by zero.
ReachesShardCheck(a) ==
  /\ ~(Truthy(a.train_steps) /\ Truthy(a.train_epochs))
  /\ (IF Truthy(a.train_steps) THEN a.steps_between_evals
      ELSE a.epochs_between_evals) # 0
  /\ a.use_tpu => (a.max_length # 0 /\ a.num_tpu_shards # 0)

Divisible(a) == (a.batch_size \div a.max_length) % a.num_tpu_shards = 0

C5_EpochsToSteps ==
  (Constructed /\ call.op = "epochs_to_steps") =>
    IF ~use_tpu THEN ret = Raise("AssertionError")
    ELSE LET tokens == NUM_EXAMPLES[call.mode] * max_length * call.num_epochs
         IN /\ ret.tag = "int"
            /\ ret.int * batch_size <= tokens
            /\ tokens < (ret.int + 1) * batch_size
            /\ \A n \in 0..call.num_epochs :
                 /\ epochs_to_steps(n, call.mode).tag = "int"
                 /\ epochs_to_steps(n, call.mode).int <= ret.int

\* C6: single_iteration_train_steps is _single_iteration_train_steps on a
\* steps basis, with or without TPU; on an epochs basis it is None without
\* TPU and epochs_to_steps(_single_iteration_train_epochs, TRAIN) on TPU.
C6_SingleIterationTrainSteps ==
  (Constructed /\ call.op = "single_iteration_train_steps") =>
    IF _single_iteration_train_epochs = None
      THEN ret = RetInt(_single_iteration_train_steps)
    ELSE IF ~use_tpu THEN ret = RetNone
    ELSE ret = epochs_to_steps(_single_iteration_train_epochs, _TRAIN)

C6_Witness ==
  /\ Constructed
  /\ call.op = "single_iteration_train_steps"
  /\ use_tpu
  /\ _single_iteration_train_epochs = 1
  /\ max_length = 1
  /\ batch_size = 1
  /\ ret = RetInt(NumTrainExamples)

\* C7: repeat_dataset is _single_iteration_train_epochs on an epochs basis;
\* on a steps basis it is None when the steps of one iteration do not
\* exceed NUM_EXAMPLES[TRAIN], and otherwise the least r with
\* r * NUM_EXAMPLES[TRAIN] >= steps, the ceiling of the quotient.
C7_RepeatDataset ==
  (Constructed /\ call.op = "repeat_dataset") =>
    IF _single_iteration_train_epochs # None
      THEN ret = RetInt(_single_iteration_train_epochs)
    ELSE IF _single_iteration_train_steps <= NUM_EXAMPLES[_TRAIN]
      THEN ret = RetNone
    ELSE /\ ret.tag = "int"
         /\ ret.int * NUM_EXAMPLES[_TRAIN] >= _single_iteration_train_steps
         /\ (ret.int - 1) * NUM_EXAMPLES[_TRAIN]
              < _single_iteration_train_steps

C7_Witness ==
  /\ Constructed
  /\ call.op = "repeat_dataset"
  /\ _single_iteration_train_epochs = None
  /\ _single_iteration_train_steps = NumTrainExamples + 1
  /\ ret = RetInt(2)

\* C8 as stated: on a steps basis the passes repeat_dataset asks for (one
\* for None) supply the examples the steps of one iteration consume, each
\* step taking batch_size // max_length examples.
C8_RepeatsCoverSteps ==
  (/\ Constructed
   /\ call.op = "repeat_dataset"
   /\ _single_iteration_train_epochs = None
   /\ max_length > 0) =>
    LET passes == IF ret.tag = "None" THEN 1 ELSE ret.int
    IN passes * NUM_EXAMPLES[_TRAIN]
         >= _single_iteration_train_steps * (batch_size \div max_length)

\* The run loop has run all its iterations.
LoopDone == Constructed /\ phase = "train" /\ i = train_eval_iterations

\* C9: a call of post_train or post_eval sleeps once on TPU and never
\* without, and leaves every field of the manager as it was; a run loop
\* that has done all its iterations has slept 2 * train_eval_iterations
\* times on TPU and never without.
C9_SleepPerHook ==
  /\ [][(phase \in {"post_train", "post_eval"} /\ phase' # phase) =>
          /\ sleeps' = sleeps + (IF use_tpu THEN 1 ELSE 0)
          /\ fields' = fields]_vars
  /\ [](LoopDone =>
          sleeps = (IF use_tpu THEN 2 * train_eval_iterations ELSE 0))

C9_Witness ==
  /\ LoopDone
  /\ use_tpu
  /\ train_eval_iterations = 2
  /\ sleeps = 4

\* C10 as stated: on a constructed manager no property raises:
\* single_iteration_train_steps, single_iteration_eval_steps,
\* train_increment_str and repeat_dataset each return a value.
C10_AccessorsTotal ==
  (/\ Constructed
   /\ call.op \in {"single_iteration_train_steps",
                   "single_iteration_eval_steps",
                   "train_increment_str", "repeat_dataset"})
    => ret.tag # "raise"

====
